---- MODULE Spec2Model ----
(***************************************************************************)
(* The ContactBook aggregate of contact_book (src/src/book.rs) and the     *)
(* Contact values it stores (src/src/contact.rs).                          *)
(*                                                                         *)
(* A book is a record [contacts, favorites]: contacts is the HashMap of    *)
(* ContactBookEntries (a function whose DOMAIN is the set of keys),        *)
(* favorites the HashSet of FavoriteContacts.  Every ContactBook method    *)
(* that takes `mut self` is an operator from the book it consumes to the   *)
(* value it returns and to `self` as it is when the method returns (on the *)
(* Err path that value is dropped).  The caller is modelled per run: it    *)
(* holds one book, calls a method on a clone of it (ContactBook derives    *)
(* Clone) and rebinds the book a call returns, as the tests do.            *)
(*                                                                         *)
(* A ContactBookEntryId wraps a version 4 UUID.  Ids are the tokens        *)
(* 1..MaxIds, and Uuid::new_v4() is a choice among the ids the run has not *)
(* generated before: the uniqueness the crate documents and the test       *)
(* no_two_new_contact_book_entry_ids_are_identical relies on.              *)
(***************************************************************************)
EXTENDS Integers, Sequences, FiniteSets, TLC

VARIABLES contacts, favorites, issued, last, held, clast

vars == <<contacts, favorites, issued, last, held, clast>>

\* Number of distinct ids the generator can hand out in one run.
MaxIds == 3

Ids == 1..MaxIds

\* Two executions of the program; Spec drives the first one only.
Runs == {"a", "b"}

Names == {"Foo Bar", "Baz Qux"}

----------------------------------------------------------------------------
(* Option and Result values *)

None == [some |-> FALSE]

Some(v) == [some |-> TRUE, val |-> v]

Ok(v) == [ok |-> TRUE, val |-> v]

Err(e) == [ok |-> FALSE, err |-> e]

NoSuchContactInBook == "NoSuchContactInBook"

CannotFavoriteNonexistantContact == "CannotFavoriteNonexistantContact"

ContactWasNotAFavorite == "ContactWasNotAFavorite"

CannotRemoveNonexistantContact == "CannotRemoveNonexistantContact"

----------------------------------------------------------------------------
(* contact.rs *)

\* Faulty variant: the name given is dropped.
ContactName_new_default(name) == Ok("")

ContactName_new(name) == Ok(name)

ContactName_get_name(self) == self

ContactAddress_new(address) == Ok(address)

ContactAddress_get_address(self) == self

ContactEmail_new(email) == Ok(email)

ContactEmail_get_email(self) == self

ContactPhoneNumber_new(phone_number) == Ok(phone_number)

ContactPhoneNumber_get_phone_number(self) == self

SocialProfileLink_new(link) == Ok(link)

SocialProfileLink_get_link(self) == self

SocialMediaWebsite == {"Github", "Twitter", "MySpace", "LinkedIn", "Unknown"}

SocialProfileList_default == [link \in {} |-> "Unknown"]

Contact_new(name) ==
    LET n == ContactName_new(name) IN
    IF n.ok
    THEN Ok([name |-> n.val, address |-> None, email |-> None,
             phone_number |-> None, social_profiles |-> SocialProfileList_default])
    ELSE n

\* Every order HashMap::iter can yield the profiles in.
SocialProfileList_as_vec(list) ==
    LET n == Cardinality(DOMAIN list) IN
    {[i \in 1..n |-> <<list[f[i]], SocialProfileLink_get_link(f[i])>>] :
        f \in {g \in [1..n -> DOMAIN list] :
                 \A i, j \in 1..n : i # j => g[i] # g[j]}}

\* Faulty variant: a link the list holds keeps its classification.
SocialProfileList_add_social_profile_keeping(list, social_media_site, link) ==
    LET l == SocialProfileLink_new(link) IN
    IF l.ok
    THEN Ok([k \in DOMAIN list \cup {l.val} |->
               IF k \in DOMAIN list THEN list[k] ELSE social_media_site])
    ELSE l

SocialProfileList_add_social_profile(list, social_media_site, link) ==
    LET l == SocialProfileLink_new(link) IN
    IF l.ok
    THEN Ok([k \in DOMAIN list \cup {l.val} |->
               IF k = l.val THEN social_media_site ELSE list[k]])
    ELSE l

\* Faulty variant: removing one link empties the list.
SocialProfileList_remove_clearing(list, link) ==
    LET l == SocialProfileLink_new(link) IN
    IF l.ok THEN Ok(SocialProfileList_default) ELSE l

SocialProfileList_remove(list, link) ==
    LET l == SocialProfileLink_new(link) IN
    IF l.ok THEN Ok([k \in DOMAIN list \ {l.val} |-> list[k]]) ELSE l

get_name(self) == ContactName_get_name(self.name)

add_address(self, address) ==
    LET a == ContactAddress_new(address) IN
    IF a.ok THEN Ok([self EXCEPT !.address = Some(a.val)]) ELSE a

get_address(self) ==
    IF self.address.some THEN Some(ContactAddress_get_address(self.address.val)) ELSE None

\* Faulty variant: the email is cleared along with the address.
remove_address_and_email(self) == [self EXCEPT !.address = None, !.email = None]

remove_address(self) == [self EXCEPT !.address = None]

\* Faulty variant: an email the Contact has is kept.
add_email_keeping(self, email) ==
    LET e == ContactEmail_new(email) IN
    IF e.ok
    THEN Ok([self EXCEPT !.email = IF @.some THEN @ ELSE Some(e.val)])
    ELSE e

add_email(self, email) ==
    LET e == ContactEmail_new(email) IN
    IF e.ok THEN Ok([self EXCEPT !.email = Some(e.val)]) ELSE e

get_email(self) ==
    IF self.email.some THEN Some(ContactEmail_get_email(self.email.val)) ELSE None

remove_email(self) == [self EXCEPT !.email = None]

\* Faulty variant: the Contact is rebuilt from its name and the new number.
add_phone_number_rebuilding(self, phone_number) ==
    LET n == ContactPhoneNumber_new(phone_number) IN
    IF n.ok
    THEN Ok([name |-> self.name, address |-> None, email |-> None,
             phone_number |-> Some(n.val), social_profiles |-> SocialProfileList_default])
    ELSE n

add_phone_number(self, phone_number) ==
    LET n == ContactPhoneNumber_new(phone_number) IN
    IF n.ok THEN Ok([self EXCEPT !.phone_number = Some(n.val)]) ELSE n

get_phone_number(self) ==
    IF self.phone_number.some
    THEN Some(ContactPhoneNumber_get_phone_number(self.phone_number.val))
    ELSE None

remove_phone_number(self) == [self EXCEPT !.phone_number = None]

add_social_profile(self, social_media_site, link) ==
    LET social_profiles ==
            SocialProfileList_add_social_profile(self.social_profiles, social_media_site, link)
    IN IF social_profiles.ok
       THEN Ok([self EXCEPT !.social_profiles = social_profiles.val])
       ELSE social_profiles

get_social_media_profiles(self) == SocialProfileList_as_vec(self.social_profiles)

remove_social_profile(self, link) ==
    LET social_profiles == SocialProfileList_remove(self.social_profiles, link) IN
    IF social_profiles.ok
    THEN Ok([self EXCEPT !.social_profiles = social_profiles.val])
    ELSE social_profiles

\* The arguments the callers of Contact pass.
ContactNames == {"Foo Bar", ""}

Addresses == {"123 Main St.", "456 Oak Ave."}

Emails == {"foo@example.test", "bar@example.test"}

PhoneNumbers == {"1234567890", "0987654321"}

Links == {"https://github.com/example", "https://twitter.com/example"}

\* The Contact values the callers of the book hand to add_contact.
BookContacts == {Contact_new(n).val : n \in Names}

\* The Contact value the two runs of SpecPair are given.
PairContacts == {Contact_new("Foo Bar").val}

----------------------------------------------------------------------------
(* book.rs: ContactBookEntryId, ContactBookEntries, FavoriteContacts *)

\* Faulty variant: an id generator that only avoids the keys now in the book.
UuidNewV4_reusing(r) == Ids \ DOMAIN contacts[r]

\* The values Uuid::new_v4() can return in run r.
UuidNewV4(r) == Ids \ issued[r]

ContactBookEntries_new == [id \in {} |-> None]

\* Faulty variant: the entry is stored as a default Contact.
ContactBookEntries_insert_default(entries, contact, uuid) ==
    [id |-> uuid,
     entries |-> [k \in DOMAIN entries \cup {uuid} |->
                    IF k = uuid THEN [contact EXCEPT !.name = ""] ELSE entries[k]]]

\* uuid is the value ContactBookEntryId::new() returns inside insert.
ContactBookEntries_insert(entries, contact, uuid) ==
    [id |-> uuid,
     entries |-> [k \in DOMAIN entries \cup {uuid} |->
                    IF k = uuid THEN contact ELSE entries[k]]]

ContactBookEntries_get(entries, contact_id) ==
    IF contact_id \in DOMAIN entries THEN Some(entries[contact_id]) ELSE None

ContactBookEntries_remove(entries, contact_id) ==
    [entries |-> [k \in DOMAIN entries \ {contact_id} |-> entries[k]],
     ret |-> IF contact_id \in DOMAIN entries THEN Some(entries[contact_id]) ELSE None]

\* Every order HashMap::iter can yield the entries in.
ContactBookEntries_as_vector(entries) ==
    LET n == Cardinality(DOMAIN entries) IN
    {[i \in 1..n |-> <<f[i], entries[f[i]]>>] :
        f \in {g \in [1..n -> DOMAIN entries] :
                 \A i, j \in 1..n : i # j => g[i] # g[j]}}

FavoriteContacts_new == {}

\* Faulty variant: inserting an id that is in the set takes it out.
FavoriteContacts_insert_toggling(favs, contact_id) ==
    [favs |-> IF contact_id \in favs THEN favs \ {contact_id} ELSE favs \cup {contact_id},
     ret |-> contact_id \notin favs]

FavoriteContacts_insert(favs, contact_id) ==
    [favs |-> favs \cup {contact_id}, ret |-> contact_id \notin favs]

\* Faulty variant: the id is reported removed and stays in the set.
FavoriteContacts_remove_kept(favs, contact_id) ==
    [favs |-> favs, ret |-> contact_id \in favs]

FavoriteContacts_remove(favs, contact_id) ==
    [favs |-> favs \ {contact_id}, ret |-> contact_id \in favs]

\* Every order HashSet::iter can yield the ids in.
FavoriteContacts_as_vector(favs) ==
    LET n == Cardinality(favs) IN
    {f \in [1..n -> favs] : \A i, j \in 1..n : i # j => f[i] # f[j]}

----------------------------------------------------------------------------
(* book.rs: ContactBook.  Each `mut self` method yields                    *)
(* [result |-> what it returns, self |-> self when it returns].            *)

ContactBook_new == [contacts |-> ContactBookEntries_new, favorites |-> FavoriteContacts_new]

add_contact(self, contact, uuid) ==
    LET book_contacts == self.contacts
        ins == ContactBookEntries_insert(book_contacts, contact, uuid)
        s == [self EXCEPT !.contacts = ins.entries]
    IN [result |-> [id |-> ins.id, book |-> s], self |-> s]

list_contacts(self) == ContactBookEntries_as_vector(self.contacts)

\* Faulty variant: the lookup answers for a favorite only.
get_contact_favorites_only(self, contact_id) ==
    IF contact_id \in self.favorites /\ contact_id \in DOMAIN self.contacts
    THEN Ok(self.contacts[contact_id])
    ELSE Err(NoSuchContactInBook)

get_contact(self, contact_id) ==
    LET got == ContactBookEntries_get(self.contacts, contact_id) IN
    IF got.some THEN Ok(got.val) ELSE Err(NoSuchContactInBook)

\* Faulty variant: the id is inserted before the contact is looked up.
add_favorite_contact_insert_first(self, contact_id) ==
    LET s == [self EXCEPT !.favorites = FavoriteContacts_insert(@, contact_id).favs] IN
    IF ContactBookEntries_get(self.contacts, contact_id).some
    THEN [result |-> Ok(s), self |-> s]
    ELSE [result |-> Err(CannotFavoriteNonexistantContact), self |-> s]

\* Faulty variant: favoriting a contact that is a favorite already is refused.
add_favorite_contact_once(self, contact_id) ==
    IF ContactBookEntries_get(self.contacts, contact_id).some
    THEN LET ins == FavoriteContacts_insert(self.favorites, contact_id)
             s == [self EXCEPT !.favorites = ins.favs]
         IN IF ins.ret
            THEN [result |-> Ok(s), self |-> s]
            ELSE [result |-> Err(CannotFavoriteNonexistantContact), self |-> s]
    ELSE [result |-> Err(CannotFavoriteNonexistantContact), self |-> self]

add_favorite_contact(self, contact_id) ==
    IF ContactBookEntries_get(self.contacts, contact_id).some
    THEN LET s == [self EXCEPT !.favorites = FavoriteContacts_insert(@, contact_id).favs]
         IN [result |-> Ok(s), self |-> s]
    ELSE [result |-> Err(CannotFavoriteNonexistantContact), self |-> self]

\* Faulty variant: unfavoriting removes the contact as well.
remove_favorite_contact_removing_contact(self, contact_id) ==
    IF ContactBookEntries_get(self.contacts, contact_id).some
    THEN LET rem == FavoriteContacts_remove(self.favorites, contact_id)
             s == [self EXCEPT !.favorites = rem.favs,
                               !.contacts = ContactBookEntries_remove(@, contact_id).entries]
         IN IF rem.ret
            THEN [result |-> Ok(s), self |-> s]
            ELSE [result |-> Err(ContactWasNotAFavorite), self |-> self]
    ELSE [result |-> Err(NoSuchContactInBook), self |-> self]

\* Faulty variant: unfavoriting one contact empties the favorites.
remove_favorite_contact_clearing(self, contact_id) ==
    IF ContactBookEntries_get(self.contacts, contact_id).some
    THEN LET rem == FavoriteContacts_remove(self.favorites, contact_id)
             s == [self EXCEPT !.favorites = FavoriteContacts_new]
         IN IF rem.ret
            THEN [result |-> Ok(s), self |-> s]
            ELSE [result |-> Err(ContactWasNotAFavorite), self |-> self]
    ELSE [result |-> Err(NoSuchContactInBook), self |-> self]

\* Faulty variant: the favorites are consulted before the contacts.
remove_favorite_contact_favorites_first(self, contact_id) ==
    LET rem == FavoriteContacts_remove(self.favorites, contact_id)
        s == [self EXCEPT !.favorites = rem.favs]
    IN IF rem.ret
       THEN [result |-> Ok(s), self |-> s]
       ELSE [result |-> Err(ContactWasNotAFavorite), self |-> s]

remove_favorite_contact(self, contact_id) ==
    IF ContactBookEntries_get(self.contacts, contact_id).some
    THEN LET rem == FavoriteContacts_remove(self.favorites, contact_id)
             s == [self EXCEPT !.favorites = rem.favs]
         IN IF rem.ret
            THEN [result |-> Ok(s), self |-> s]
            ELSE [result |-> Err(ContactWasNotAFavorite), self |-> s]
    ELSE [result |-> Err(NoSuchContactInBook), self |-> self]

get_favorite_contact_ids(self) == FavoriteContacts_as_vector(self.favorites)

\* Faulty variant: removing a contact empties the favorites.
remove_contact_clearing_favorites(self, contact_id) ==
    LET rem == ContactBookEntries_remove(self.contacts, contact_id)
        s == [self EXCEPT !.contacts = rem.entries, !.favorites = FavoriteContacts_new]
    IN IF rem.ret.some
       THEN [result |-> Ok(s), self |-> s]
       ELSE [result |-> Err(CannotRemoveNonexistantContact), self |-> self]

\* Faulty variant: the contact is removed and its id is left in the favorites.
remove_contact_keeping_favorite(self, contact_id) ==
    LET rem == ContactBookEntries_remove(self.contacts, contact_id)
        s == [self EXCEPT !.contacts = rem.entries]
    IN IF rem.ret.some
       THEN [result |-> Ok(s), self |-> s]
       ELSE [result |-> Err(CannotRemoveNonexistantContact), self |-> s]

\* Faulty variant: removing an id that is not in the book is accepted.
remove_contact_lenient(self, contact_id) ==
    LET s1 == [self EXCEPT !.favorites = FavoriteContacts_remove(@, contact_id).favs]
        rem == ContactBookEntries_remove(s1.contacts, contact_id)
        s2 == [s1 EXCEPT !.contacts = rem.entries]
    IN [result |-> Ok(s2), self |-> s2]

remove_contact(self, contact_id) ==
    LET s1 == [self EXCEPT !.favorites = FavoriteContacts_remove(@, contact_id).favs]
        rem == ContactBookEntries_remove(s1.contacts, contact_id)
        s2 == [s1 EXCEPT !.contacts = rem.entries]
    IN IF rem.ret.some
       THEN [result |-> Ok(s2), self |-> s2]
       ELSE [result |-> Err(CannotRemoveNonexistantContact), self |-> s2]

----------------------------------------------------------------------------
(* lib.rs: the ContactBook kept over a bare HashMap and HashSet.  Its      *)
(* Contact is a unit struct and its error kinds carry the names book.rs    *)
(* gives its own.                                                          *)

\* `pub struct Contact;`: the one value of the type.
lib_Contact == [unit |-> TRUE]

\* Contact::new(_name) drops the name.
lib_Contact_new(name) == lib_Contact

lib_ContactBook_new == [contacts |-> << >>, favorites |-> {}]

lib_add_contact(self, contact, uuid) ==
    LET id == uuid
        s == [self EXCEPT !.contacts =
                 [k \in DOMAIN self.contacts \cup {id} |->
                     IF k = id THEN contact ELSE self.contacts[k]]]
    IN [result |-> [id |-> id, book |-> s], self |-> s]

\* Every order HashMap::iter can yield the entries in.
lib_list_contacts(self) ==
    LET n == Cardinality(DOMAIN self.contacts) IN
    {[i \in 1..n |-> <<f[i], self.contacts[f[i]]>>] :
        f \in {g \in [1..n -> DOMAIN self.contacts] :
                 \A i, j \in 1..n : i # j => g[i] # g[j]}}

lib_get_contact(self, contact_id) ==
    IF contact_id \in DOMAIN self.contacts
    THEN Ok(self.contacts[contact_id])
    ELSE Err(NoSuchContactInBook)

lib_add_favorite_contact(self, contact_id) ==
    IF contact_id \in DOMAIN self.contacts
    THEN LET s == [self EXCEPT !.favorites = @ \cup {contact_id}]
         IN [result |-> Ok(s), self |-> s]
    ELSE [result |-> Err(CannotFavoriteNonexistantContact), self |-> self]

\* Faulty variant: unfavoriting a contact that is no favorite succeeds.
lib_remove_favorite_contact_lenient(self, contact_id) ==
    IF contact_id \in DOMAIN self.contacts
    THEN LET s == [self EXCEPT !.favorites = @ \ {contact_id}]
         IN [result |-> Ok(s), self |-> s]
    ELSE [result |-> Err(NoSuchContactInBook), self |-> self]

lib_remove_favorite_contact(self, contact_id) ==
    IF contact_id \in DOMAIN self.contacts
    THEN LET removed == contact_id \in self.favorites
             s == [self EXCEPT !.favorites = @ \ {contact_id}]
         IN IF removed
            THEN [result |-> Ok(s), self |-> s]
            ELSE [result |-> Err(ContactWasNotAFavorite), self |-> s]
    ELSE [result |-> Err(NoSuchContactInBook), self |-> self]

\* Every order HashSet::iter can yield the ids in.
lib_get_favorite_contact_ids(self) ==
    LET n == Cardinality(self.favorites) IN
    {f \in [1..n -> self.favorites] : \A i, j \in 1..n : i # j => f[i] # f[j]}

lib_remove_contact(self, contact_id) ==
    LET s1 == [self EXCEPT !.favorites = @ \ {contact_id}]
        removed == IF contact_id \in DOMAIN s1.contacts
                   THEN Some(s1.contacts[contact_id]) ELSE None
        s2 == [s1 EXCEPT !.contacts = [k \in DOMAIN @ \ {contact_id} |-> @[k]]]
    IN IF removed.some
       THEN [result |-> Ok(s2), self |-> s2]
       ELSE [result |-> Err(CannotRemoveNonexistantContact), self |-> s2]

----------------------------------------------------------------------------
(* The callers *)

\* The book run r holds.
Book(r) == [contacts |-> contacts[r], favorites |-> favorites[r]]

\* `book = book.clone().method(..)?`: the caller rebinds the book an Ok
\* carries and is left with its own book when the clone is dropped in an Err.
Rebind(pre, result) == IF result.ok THEN result.val ELSE pre

\* The runs in R have made the call op(args): out[r] is what the method
\* yielded in run r, next[r] the book the caller holds after it and gen[r]
\* the ids the call generated.
Called(R, op, args, out, next, gen) ==
    /\ contacts' = [r \in Runs |-> IF r \in R THEN next[r].contacts ELSE contacts[r]]
    /\ favorites' = [r \in Runs |-> IF r \in R THEN next[r].favorites ELSE favorites[r]]
    /\ issued' = [r \in Runs |-> IF r \in R THEN issued[r] \cup gen[r] ELSE issued[r]]
    /\ last' = [r \in Runs |->
                  IF r \in R
                  THEN [op |-> op, args |-> args, pre |-> Book(r),
                        self |-> out[r].self, result |-> out[r].result]
                  ELSE last[r]]
    /\ UNCHANGED <<held, clast>>

Init ==
    /\ contacts = [r \in Runs |-> ContactBook_new.contacts]
    /\ favorites = [r \in Runs |-> ContactBook_new.favorites]
    /\ issued = [r \in Runs |-> {}]
    /\ last = [r \in Runs |-> [op |-> "new", args |-> [none |-> TRUE],
                               pre |-> ContactBook_new, self |-> ContactBook_new,
                               result |-> ContactBook_new]]
    /\ held = Contact_new("Foo Bar").val
    /\ clast = [op |-> "new", args |-> [name |-> "Foo Bar"],
                pre |-> Contact_new("Foo Bar").val, result |-> Contact_new("Foo Bar")]

\* Faulty variant: the entry is stored under a second generated id.
AddContact_regenerating(R, given) ==
    \E contact \in given :
    \E uuid \in [R -> Ids], other \in [R -> Ids] :
        /\ \A r \in R : uuid[r] \in UuidNewV4(r) /\ other[r] \in UuidNewV4(r)
        /\ LET out == [r \in R |->
                         LET o == add_contact(Book(r), contact, other[r]) IN
                         [result |-> [id |-> uuid[r], book |-> o.result.book],
                          self |-> o.self]]
           IN Called(R, "add_contact", [contact |-> contact], out,
                     [r \in R |-> out[r].result.book],
                     [r \in R |-> {uuid[r], other[r]}])

AddContact(R, given) ==
    \E contact \in given :
    \E uuid \in [R -> Ids] :
        /\ \A r \in R : uuid[r] \in UuidNewV4(r)
        /\ LET out == [r \in R |-> add_contact(Book(r), contact, uuid[r])]
           IN Called(R, "add_contact", [contact |-> contact], out,
                     [r \in R |-> out[r].result.book],
                     [r \in R |-> {uuid[r]}])

GetContact(R) ==
    \E contact_id \in Ids :
        LET out == [r \in R |-> [result |-> get_contact(Book(r), contact_id),
                                 self |-> Book(r)]]
        IN Called(R, "get_contact", [contact_id |-> contact_id], out,
                  [r \in R |-> Book(r)], [r \in R |-> {}])

AddFavoriteContact(R) ==
    \E contact_id \in Ids :
        LET out == [r \in R |-> add_favorite_contact(Book(r), contact_id)]
        IN Called(R, "add_favorite_contact", [contact_id |-> contact_id], out,
                  [r \in R |-> Rebind(Book(r), out[r].result)], [r \in R |-> {}])

RemoveFavoriteContact(R) ==
    \E contact_id \in Ids :
        LET out == [r \in R |-> remove_favorite_contact(Book(r), contact_id)]
        IN Called(R, "remove_favorite_contact", [contact_id |-> contact_id], out,
                  [r \in R |-> Rebind(Book(r), out[r].result)], [r \in R |-> {}])

RemoveContact(R) ==
    \E contact_id \in Ids :
        LET out == [r \in R |-> remove_contact(Book(r), contact_id)]
        IN Called(R, "remove_contact", [contact_id |-> contact_id], out,
                  [r \in R |-> Rebind(Book(r), out[r].result)], [r \in R |-> {}])

\* One program run.
Next ==
    \/ AddContact({"a"}, BookContacts)
    \/ GetContact({"a"})
    \/ AddFavoriteContact({"a"})
    \/ RemoveFavoriteContact({"a"})
    \/ RemoveContact({"a"})

Spec == Init /\ [][Next]_vars

\* Two program runs given the same calls with the same arguments.  Each run
\* stops adding contacts while one id is still ungenerated.
NextPair ==
    \/ (AddContact(Runs, PairContacts) /\ \A r \in Runs : issued'[r] # Ids)
    \/ GetContact(Runs)
    \/ AddFavoriteContact(Runs)
    \/ RemoveFavoriteContact(Runs)
    \/ RemoveContact(Runs)

SpecPair == Init /\ [][NextPair]_vars

\* lib.rs's ContactBook is not Clone: `book = book.method(..)?` moves the
\* book into the call.  An Ok hands it back; after an Err the caller holds
\* no book, and the run keeps the book as it was when it was dropped.
Moved(result, self) == IF result.ok THEN result.val ELSE self

\* Run r still holds a book: its last call gave the book back.
BookHeld(r) ==
    IF last[r].op \in {"new", "add_contact", "get_contact"}
    THEN TRUE
    ELSE last[r].result.ok

\* Run "a" makes the call on book.rs's ContactBook and run "b" the same
\* call on lib.rs's: out_book and out_lib are what the two methods yielded
\* and next_book and next_lib the books left after them.
BothCalled(op, args, out_book, out_lib, next_book, next_lib, gen) ==
    /\ \A r \in Runs : BookHeld(r)
    /\ Called(Runs, op, args,
              [r \in Runs |-> IF r = "a" THEN out_book ELSE out_lib],
              [r \in Runs |-> IF r = "a" THEN next_book ELSE next_lib],
              [r \in Runs |-> gen])

\* Each crate builds its own Contact from the name, and both books are
\* handed the same generated id.
BothAddContact ==
    \E name \in Names :
    \E uuid \in UuidNewV4("a") \cap UuidNewV4("b") :
        LET out_book == add_contact(Book("a"), Contact_new(name).val, uuid)
            out_lib == lib_add_contact(Book("b"), lib_Contact_new(name), uuid)
        IN BothCalled("add_contact", [name |-> name], out_book, out_lib,
                      out_book.result.book, out_lib.result.book, {uuid})

BothGetContact ==
    \E contact_id \in Ids :
        LET out_book == [result |-> get_contact(Book("a"), contact_id),
                         self |-> Book("a")]
            out_lib == [result |-> lib_get_contact(Book("b"), contact_id),
                        self |-> Book("b")]
        IN BothCalled("get_contact", [contact_id |-> contact_id],
                      out_book, out_lib, Book("a"), Book("b"), {})

BothAddFavoriteContact ==
    \E contact_id \in Ids :
        LET out_book == add_favorite_contact(Book("a"), contact_id)
            out_lib == lib_add_favorite_contact(Book("b"), contact_id)
        IN BothCalled("add_favorite_contact", [contact_id |-> contact_id],
                      out_book, out_lib,
                      Rebind(Book("a"), out_book.result),
                      Moved(out_lib.result, out_lib.self), {})

BothRemoveFavoriteContact ==
    \E contact_id \in Ids :
        LET out_book == remove_favorite_contact(Book("a"), contact_id)
            out_lib == lib_remove_favorite_contact(Book("b"), contact_id)
        IN BothCalled("remove_favorite_contact", [contact_id |-> contact_id],
                      out_book, out_lib,
                      Rebind(Book("a"), out_book.result),
                      Moved(out_lib.result, out_lib.self), {})

BothRemoveContact ==
    \E contact_id \in Ids :
        LET out_book == remove_contact(Book("a"), contact_id)
            out_lib == lib_remove_contact(Book("b"), contact_id)
        IN BothCalled("remove_contact", [contact_id |-> contact_id],
                      out_book, out_lib,
                      Rebind(Book("a"), out_book.result),
                      Moved(out_lib.result, out_lib.self), {})

\* The two implementations side by side, up to the first call that costs
\* the lib.rs caller its book.
NextBoth ==
    \/ BothAddContact
    \/ BothGetContact
    \/ BothAddFavoriteContact
    \/ BothRemoveFavoriteContact
    \/ BothRemoveContact

InitBoth == Init /\ Book("b") = lib_ContactBook_new

SpecBoth == InitBoth /\ [][NextBoth]_vars

\* The caller, who held the Contact `held`, has made the Contact call
\* op(args), which returned result, and holds the Contact next.
ContactCalled(op, args, result, next) ==
    /\ held' = next
    /\ clast' = [op |-> op, args |-> args, pre |-> held, result |-> result]
    /\ UNCHANGED <<contacts, favorites, issued, last>>

ContactNew ==
    \E name \in ContactNames :
        LET result == Contact_new(name) IN
        ContactCalled("new", [name |-> name], result, Rebind(held, result))

AddAddress ==
    \E address \in Addresses :
        LET result == add_address(held, address) IN
        ContactCalled("add_address", [address |-> address], result, Rebind(held, result))

RemoveAddress ==
    LET result == remove_address(held) IN
    ContactCalled("remove_address", [none |-> TRUE], result, result)

AddEmail ==
    \E email \in Emails :
        LET result == add_email(held, email) IN
        ContactCalled("add_email", [email |-> email], result, Rebind(held, result))

RemoveEmail ==
    LET result == remove_email(held) IN
    ContactCalled("remove_email", [none |-> TRUE], result, result)

AddPhoneNumber ==
    \E phone_number \in PhoneNumbers :
        LET result == add_phone_number(held, phone_number) IN
        ContactCalled("add_phone_number", [phone_number |-> phone_number], result,
                      Rebind(held, result))

RemovePhoneNumber ==
    LET result == remove_phone_number(held) IN
    ContactCalled("remove_phone_number", [none |-> TRUE], result, result)

AddSocialProfile ==
    \E social_media_site \in SocialMediaWebsite, link \in Links :
        LET result == add_social_profile(held, social_media_site, link) IN
        ContactCalled("add_social_profile",
                      [social_media_site |-> social_media_site, link |-> link],
                      result, Rebind(held, result))

RemoveSocialProfile ==
    \E link \in Links :
        LET result == remove_social_profile(held, link) IN
        ContactCalled("remove_social_profile", [link |-> link], result,
                      Rebind(held, result))

\* One Contact, built and edited by its owner.
NextContact ==
    \/ ContactNew
    \/ AddAddress
    \/ RemoveAddress
    \/ AddEmail
    \/ RemoveEmail
    \/ AddPhoneNumber
    \/ RemovePhoneNumber
    \/ AddSocialProfile
    \/ RemoveSocialProfile

SpecContact == Init /\ [][NextContact]_vars

----------------------------------------------------------------------------
(* Properties *)

Op(r) == last[r].op

Arg(r) == last[r].args.contact_id

\* C1 Favorite invariant: in every reachable state every id that
\* get_favorite_contact_ids lists is the id of an entry that list_contacts
\* lists (the favorites are a subset of the keys of contacts).
C1_FavoriteInvariant ==
    \A r \in Runs :
        /\ favorites[r] \subseteq DOMAIN contacts[r]
        /\ \A favs \in get_favorite_contact_ids(Book(r)) :
           \A listed \in list_contacts(Book(r)) :
           \A i \in DOMAIN favs : \E j \in DOMAIN listed : listed[j][1] = favs[i]

\* A favorited contact has just been removed while another stays a favorite.
C1_Witness ==
    /\ Op("a") = "remove_contact"
    /\ last["a"].result.ok
    /\ Arg("a") \in last["a"].pre.favorites
    /\ favorites["a"] # {}

\* C2 Removal cascades: a successful remove_contact(X) returns a book with X
\* in neither contacts nor favorites, so that get_favorite_contact_ids does
\* not list X and get_contact(X) fails with NoSuchContactInBook; and no
\* reachable book has a removed id among its favorites.
C2_RemovalCascades ==
    \A r \in Runs :
        /\ (Op(r) = "remove_contact" /\ last[r].result.ok) =>
              /\ Book(r) = last[r].result.val
              /\ Arg(r) \notin DOMAIN contacts[r]
              /\ Arg(r) \notin favorites[r]
              /\ \A favs \in get_favorite_contact_ids(Book(r)) :
                 \A i \in DOMAIN favs : favs[i] # Arg(r)
              /\ get_contact(Book(r), Arg(r)) = Err(NoSuchContactInBook)
        /\ \A id \in issued[r] \ DOMAIN contacts[r] : id \notin favorites[r]

\* remove_contact has succeeded on a contact that was a favorite.
C2_Witness ==
    /\ Op("a") = "remove_contact"
    /\ last["a"].result.ok
    /\ Arg("a") \in last["a"].pre.favorites
    /\ Arg("a") \in DOMAIN last["a"].pre.contacts

\* C3 No partial failure: when add_favorite_contact, remove_favorite_contact
\* or remove_contact returns an error, self is at its return what it was at
\* the call (same contacts, same favorites), and so is the caller's book.
C3_NoPartialFailure ==
    \A r \in Runs :
        (/\ Op(r) \in {"add_favorite_contact", "remove_favorite_contact", "remove_contact"}
         /\ ~last[r].result.ok) =>
            /\ last[r].self = last[r].pre
            /\ Book(r) = last[r].pre

\* remove_contact has failed on a book that has favorites.
C3_Witness ==
    /\ Op("a") = "remove_contact"
    /\ ~last["a"].result.ok
    /\ last["a"].pre.favorites # {}

\* C4 remove_favorite_contact(id): NoSuchContactInBook when id is not a key of
\* contacts, whatever the favorites hold; ContactWasNotAFavorite when id is a
\* contact and not a favorite; otherwise Ok, and id is no longer a favorite.
C4_RemoveFavoriteOutcomes ==
    \A r \in Runs :
        Op(r) = "remove_favorite_contact" =>
            LET pre == last[r].pre
                res == last[r].result
            IN /\ Arg(r) \notin DOMAIN pre.contacts => res = Err(NoSuchContactInBook)
               /\ (Arg(r) \in DOMAIN pre.contacts /\ Arg(r) \notin pre.favorites) =>
                     res = Err(ContactWasNotAFavorite)
               /\ (Arg(r) \in DOMAIN pre.contacts /\ Arg(r) \in pre.favorites) =>
                     /\ res = Ok([pre EXCEPT !.favorites = @ \ {Arg(r)}])
                     /\ Arg(r) \notin favorites[r]

\* remove_favorite_contact has failed for an id that was a contact once,
\* on a book that has favorites.
C4_Witness ==
    /\ Op("a") = "remove_favorite_contact"
    /\ last["a"].result = Err(NoSuchContactInBook)
    /\ Arg("a") \in issued["a"]
    /\ last["a"].pre.favorites # {}

\* C5 add_favorite_contact(id) fails, with CannotFavoriteNonexistantContact,
\* exactly when id is not a key of contacts; otherwise it succeeds and id is
\* a favorite afterwards.
C5_AddFavoriteOutcomes ==
    \A r \in Runs :
        Op(r) = "add_favorite_contact" =>
            LET pre == last[r].pre
                res == last[r].result
            IN /\ res = Err(CannotFavoriteNonexistantContact) <=>
                     Arg(r) \notin DOMAIN pre.contacts
               /\ ~res.ok => res = Err(CannotFavoriteNonexistantContact)
               /\ res.ok => /\ Arg(r) \in res.val.favorites
                            /\ Arg(r) \in favorites[r]

\* add_favorite_contact has succeeded on a contact that was a favorite already.
C5_Witness ==
    /\ Op("a") = "add_favorite_contact"
    /\ last["a"].result.ok
    /\ Arg("a") \in last["a"].pre.favorites

\* C6 remove_contact(id) fails, with CannotRemoveNonexistantContact, exactly
\* when id is not a key of contacts at the call; a second remove_contact(id)
\* on the book a successful one returned fails with that error.
C6_RemoveContactOutcomes ==
    \A r \in Runs :
        Op(r) = "remove_contact" =>
            LET pre == last[r].pre
                res == last[r].result
            IN /\ res = Err(CannotRemoveNonexistantContact) <=>
                     Arg(r) \notin DOMAIN pre.contacts
               /\ ~res.ok => res = Err(CannotRemoveNonexistantContact)
               /\ res.ok => remove_contact(res.val, Arg(r)).result
                               = Err(CannotRemoveNonexistantContact)

\* remove_contact has failed for an id whose contact was removed before.
C6_Witness ==
    /\ Op("a") = "remove_contact"
    /\ last["a"].result = Err(CannotRemoveNonexistantContact)
    /\ Arg("a") \in issued["a"]

\* C7 get_contact(id) fails, with NoSuchContactInBook, exactly when id is not
\* a key of contacts, returns the stored Contact otherwise, and leaves the
\* book as it was.
C7_GetContactOutcomes ==
    \A r \in Runs :
        Op(r) = "get_contact" =>
            LET pre == last[r].pre
                res == last[r].result
            IN /\ res = Err(NoSuchContactInBook) <=> Arg(r) \notin DOMAIN pre.contacts
               /\ ~res.ok => res = Err(NoSuchContactInBook)
               /\ res.ok => res.val = pre.contacts[Arg(r)]
               /\ last[r].self = pre
               /\ Book(r) = pre

\* get_contact has found a contact that is not a favorite.
C7_Witness ==
    /\ Op("a") = "get_contact"
    /\ last["a"].result.ok
    /\ Arg("a") \notin last["a"].pre.favorites

\* C8 Round trip: get_contact(id) on the book add_contact(c) returned, with
\* the id it returned, succeeds with a Contact equal to c.
C8_RoundTrip ==
    \A r \in Runs :
        Op(r) = "add_contact" =>
            /\ get_contact(last[r].result.book, last[r].result.id) = Ok(last[r].args.contact)
            /\ get_contact(Book(r), last[r].result.id) = Ok(last[r].args.contact)

\* add_contact has added a contact to a book that holds another one.
C8_Witness ==
    /\ Op("a") = "add_contact"
    /\ \E id \in DOMAIN last["a"].pre.contacts :
          last["a"].pre.contacts[id] # last["a"].args.contact

SameCall ==
    /\ Op("a") = Op("b")
    /\ last["a"].args = last["b"].args
    /\ last["a"].pre = last["b"].pre

SameOutcome ==
    /\ last["a"].result = last["b"].result
    /\ last["a"].self = last["b"].self
    /\ Book("a") = Book("b")

C11_AddFavoriteIdempotent ==
    \A r \in Runs :
        (Op(r) = "add_favorite_contact" /\ last[r].result.ok) =>
            LET once == last[r].result.val IN
            /\ add_favorite_contact(once, Arg(r)).result = Ok(once)
            /\ Arg(r) \in last[r].pre.favorites => once = last[r].pre
            /\ \A favs \in get_favorite_contact_ids(once) :
                  Cardinality({i \in DOMAIN favs : favs[i] = Arg(r)}) = 1

\* add_favorite_contact has been repeated for a favorite of a book that has
\* another favorite.
C11_Witness ==
    /\ Op("a") = "add_favorite_contact"
    /\ last["a"].result.ok
    /\ Arg("a") \in last["a"].pre.favorites
    /\ last["a"].pre.favorites # {Arg("a")}

\* C12 Lifecycle of bindings: the book starts with no contacts and no
\* favorites; a call changes the set of ids list_contacts returns only by
\* adding the id add_contact returns or by taking out the id a successful
\* remove_contact was given; every id is listed once.
C12_Lifecycle ==
    /\ \A r \in Runs : Book(r) = [contacts |-> << >>, favorites |-> {}]
    /\ [][\A r \in Runs :
            last'[r] # last[r] =>
                LET before == DOMAIN contacts[r]
                    after == DOMAIN contacts'[r]
                    call == last'[r]
                    added == call.op = "add_contact"
                    removed == call.op = "remove_contact" /\ call.result.ok
                IN /\ added => after = before \cup {call.result.id}
                   /\ removed => after = before \ {call.args.contact_id}
                   /\ ~(added \/ removed) => after = before
                   /\ after \subseteq issued'[r]
                   /\ \A listed \in list_contacts([contacts |-> contacts'[r],
                                                   favorites |-> favorites'[r]]) :
                         /\ {listed[i][1] : i \in DOMAIN listed} = after
                         /\ Len(listed) = Cardinality(after)]_vars

\* A contact has been unfavorited in a book from which another contact was
\* removed before.
C12_Witness ==
    /\ Op("a") = "remove_favorite_contact"
    /\ last["a"].result.ok
    /\ DOMAIN contacts["a"] # {}
    /\ issued["a"] \ DOMAIN contacts["a"] # {}

\* C13 Unfavoriting undoes favoriting: for every contact id of a reachable
\* book that is not a favorite, add_favorite_contact(id) and then
\* remove_favorite_contact(id) both succeed and return a book equal to the
\* original, whose favorites do not list id.
C13_UnfavoriteUndoesFavorite ==
    \A r \in Runs :
    \A id \in DOMAIN contacts[r] \ favorites[r] :
        LET fav == add_favorite_contact(Book(r), id).result IN
        /\ fav.ok
        /\ LET un == remove_favorite_contact(fav.val, id).result IN
           /\ un = Ok(Book(r))
           /\ \A favs \in get_favorite_contact_ids(un.val) :
                 \A i \in DOMAIN favs : favs[i] # id

\* A favorite has been unfavorited while another contact stays a favorite.
C13_Witness ==
    /\ Op("a") = "remove_favorite_contact"
    /\ last["a"].result.ok
    /\ Arg("a") \in DOMAIN contacts["a"] \ favorites["a"]
    /\ favorites["a"] # {}

\* C20 Locality of book operations: add_favorite_contact(X),
\* remove_favorite_contact(X) and remove_contact(X) leave every other id Y
\* as it was (in contacts or not, its Contact, favorite or not); the two
\* favorite operations leave contacts unchanged; add_contact leaves
\* favorites and every existing binding unchanged; no call changes the
\* Contact stored under an id that stays in the book.
C20_Locality ==
    \A r \in Runs :
        LET pre == last[r].pre
            now == Book(r)
        IN /\ Op(r) \in {"add_favorite_contact", "remove_favorite_contact", "remove_contact"} =>
                \A Y \in Ids \ {Arg(r)} :
                    /\ Y \in DOMAIN pre.contacts <=> Y \in DOMAIN now.contacts
                    /\ Y \in DOMAIN pre.contacts => now.contacts[Y] = pre.contacts[Y]
                    /\ Y \in pre.favorites <=> Y \in now.favorites
           /\ Op(r) \in {"add_favorite_contact", "remove_favorite_contact"} =>
                /\ now.contacts = pre.contacts
                /\ last[r].self.contacts = pre.contacts
           /\ Op(r) = "add_contact" =>
                /\ now.favorites = pre.favorites
                /\ \A Y \in DOMAIN pre.contacts :
                      Y \in DOMAIN now.contacts /\ now.contacts[Y] = pre.contacts[Y]
           /\ \A Y \in DOMAIN pre.contacts \cap DOMAIN now.contacts :
                 now.contacts[Y] = pre.contacts[Y]

\* A contact that is no favorite has been removed from a book that keeps a
\* favorite and another contact.
C20_Witness ==
    /\ Op("a") = "remove_contact"
    /\ last["a"].result.ok
    /\ Arg("a") \notin last["a"].pre.favorites
    /\ favorites["a"] # {}
    /\ DOMAIN contacts["a"] \ favorites["a"] # {}

\* C14 Name invariant: every Contact got through the public interface has a
\* non-empty name, and no add_* or remove_* operation of Contact changes the
\* name set at construction.
C14_NameInvariant ==
    /\ get_name(held) # ""
    /\ clast.op # "new" => get_name(held) = get_name(clast.pre)

\* C15 Social profile links are unique keys: get_social_media_profiles lists
\* each link at most once, and add_social_profile(site, link) leaves the
\* Contact with exactly one entry for link, classified site, and with the
\* links it had.
C15_SocialLinksUnique ==
    /\ \A listed \in get_social_media_profiles(held) :
       \A i, j \in DOMAIN listed : i # j => listed[i][2] # listed[j][2]
    /\ clast.op = "add_social_profile" =>
          LET site == clast.args.social_media_site
              link == clast.args.link
              had == DOMAIN clast.pre.social_profiles
          IN /\ clast.result = Ok(held)
             /\ \A listed \in get_social_media_profiles(held) :
                   /\ {i \in DOMAIN listed : listed[i][2] = link}
                         = {i \in DOMAIN listed : listed[i] = <<site, link>>}
                   /\ Cardinality({i \in DOMAIN listed : listed[i][2] = link}) = 1
                   /\ Len(listed) = Cardinality(had \cup {link})
                   /\ \A other \in had \ {link} :
                         \E i \in DOMAIN listed :
                             listed[i] = <<clast.pre.social_profiles[other], other>>

\* add_social_profile has been given a link the Contact had under another
\* classification.
C15_Witness ==
    /\ clast.op = "add_social_profile"
    /\ clast.args.link \in DOMAIN clast.pre.social_profiles
    /\ clast.pre.social_profiles[clast.args.link] # clast.args.social_media_site

\* C16 remove_social_profile(link) succeeds; on a Contact without that link
\* it returns a Contact equal to the original, and otherwise it removes that
\* link and leaves every other profile in place.
C16_RemoveSocialProfile ==
    clast.op = "remove_social_profile" =>
        LET link == clast.args.link
            had == clast.pre.social_profiles
        IN /\ clast.result = Ok(held)
           /\ link \notin DOMAIN had => held = clast.pre
           /\ DOMAIN held.social_profiles = DOMAIN had \ {link}
           /\ \A other \in DOMAIN had \ {link} : held.social_profiles[other] = had[other]
           /\ \A listed \in get_social_media_profiles(held) :
                 \A i \in DOMAIN listed : listed[i][2] # link

\* remove_social_profile has removed one of two profiles.
C16_Witness ==
    /\ clast.op = "remove_social_profile"
    /\ clast.args.link \in DOMAIN clast.pre.social_profiles
    /\ DOMAIN held.social_profiles # {}

\* C17 Optional fields: after add_address(v), add_email(v) or
\* add_phone_number(v) the field's getter returns Some(v), whatever the field
\* held; after remove_address, remove_email or remove_phone_number it
\* returns None.
C17_OptionalFields ==
    /\ clast.op = "add_address" =>
          clast.result = Ok(held) /\ get_address(held) = Some(clast.args.address)
    /\ clast.op = "add_email" =>
          clast.result = Ok(held) /\ get_email(held) = Some(clast.args.email)
    /\ clast.op = "add_phone_number" =>
          clast.result = Ok(held) /\ get_phone_number(held) = Some(clast.args.phone_number)
    /\ clast.op = "remove_address" => get_address(held) = None
    /\ clast.op = "remove_email" => get_email(held) = None
    /\ clast.op = "remove_phone_number" => get_phone_number(held) = None

\* add_email has been given an email for a Contact that had another one.
C17_Witness ==
    /\ clast.op = "add_email"
    /\ get_email(clast.pre).some
    /\ get_email(clast.pre) # Some(clast.args.email)

\* C18 Idempotent clear: remove_address, remove_email and
\* remove_phone_number return a Contact (no Result); on a Contact whose field
\* is absent it equals the original, and a second call returns what the
\* first returned.
C18_IdempotentClear ==
    /\ clast.op = "remove_address" =>
          /\ clast.result = held
          /\ ~get_address(clast.pre).some => held = clast.pre
          /\ remove_address(held) = held
    /\ clast.op = "remove_email" =>
          /\ clast.result = held
          /\ ~get_email(clast.pre).some => held = clast.pre
          /\ remove_email(held) = held
    /\ clast.op = "remove_phone_number" =>
          /\ clast.result = held
          /\ ~get_phone_number(clast.pre).some => held = clast.pre
          /\ remove_phone_number(held) = held

\* remove_address has been called on a Contact with an email and no address.
C18_Witness ==
    /\ clast.op = "remove_address"
    /\ ~get_address(clast.pre).some
    /\ get_email(clast.pre).some

\* C19 Contact::new(name), when it succeeds, returns a Contact whose
\* get_name is name, whose address, email and phone number are absent and
\* whose social profile list is empty.
C19_NewContact ==
    (clast.op = "new" /\ clast.result.ok) =>
        LET new == clast.result.val IN
        /\ held = new
        /\ get_name(new) = clast.args.name
        /\ get_address(new) = None
        /\ get_email(new) = None
        /\ get_phone_number(new) = None
        /\ get_social_media_profiles(new) = {<< >>}

\* Contact::new("Foo Bar") has been called by the holder of a Contact with
\* an address and a social profile.
C19_Witness ==
    /\ clast.op = "new"
    /\ clast.args.name = "Foo Bar"
    /\ get_address(clast.pre).some
    /\ DOMAIN clast.pre.social_profiles # {}

\* C21 Locality of Contact operations: add_address and remove_address change
\* nothing but the address, add_email and remove_email nothing but the
\* email, add_phone_number and remove_phone_number nothing but the phone
\* number, add_social_profile and remove_social_profile nothing but the
\* social profiles: the other three attributes are what they were before
\* the call.
C21_ContactLocality ==
    LET pre == clast.pre
        same_address == get_address(held) = get_address(pre)
        same_email == get_email(held) = get_email(pre)
        same_phone_number == get_phone_number(held) = get_phone_number(pre)
        same_social_profiles ==
            /\ held.social_profiles = pre.social_profiles
            /\ get_social_media_profiles(held) = get_social_media_profiles(pre)
    IN /\ clast.op \in {"add_address", "remove_address"} =>
             same_email /\ same_phone_number /\ same_social_profiles
       /\ clast.op \in {"add_email", "remove_email"} =>
             same_address /\ same_phone_number /\ same_social_profiles
       /\ clast.op \in {"add_phone_number", "remove_phone_number"} =>
             same_address /\ same_email /\ same_social_profiles
       /\ clast.op \in {"add_social_profile", "remove_social_profile"} =>
             same_address /\ same_email /\ same_phone_number

\* add_phone_number has been called on a Contact that has an address, an
\* email and a social profile.
C21_Witness ==
    /\ clast.op = "add_phone_number"
    /\ get_address(clast.pre).some
    /\ get_email(clast.pre).some
    /\ DOMAIN clast.pre.social_profiles # {}
    /\ held # clast.pre

\* C22 The two ContactBook implementations are equivalent: given the same
\* add_contact, add_favorite_contact, remove_favorite_contact, remove_contact
\* and get_contact calls and the same generated ids, the ContactBook of
\* lib.rs and the ContactBook of book.rs return the same success or the
\* same error kind at every step and keep the same contact id set and the
\* same favorites set.
C22_Equivalent ==
    LET a == last["a"]
        b == last["b"]
    IN /\ a.op = b.op /\ a.args = b.args
       /\ a.op = "add_contact" => a.result.id = b.result.id
       /\ a.op \in {"get_contact", "add_favorite_contact",
                    "remove_favorite_contact", "remove_contact"} =>
             /\ a.result.ok = b.result.ok
             /\ ~a.result.ok => a.result.err = b.result.err
       /\ DOMAIN a.self.contacts = DOMAIN b.self.contacts
       /\ a.self.favorites = b.self.favorites
       /\ DOMAIN contacts["a"] = DOMAIN contacts["b"]
       /\ favorites["a"] = favorites["b"]
       /\ {[i \in DOMAIN v |-> v[i][1]] : v \in list_contacts(Book("a"))}
             = {[i \in DOMAIN v |-> v[i][1]] : v \in lib_list_contacts(Book("b"))}
       /\ get_favorite_contact_ids(Book("a")) = lib_get_favorite_contact_ids(Book("b"))

\* Both implementations have refused to unfavorite a contact that is in a
\* book of two contacts, one of them a favorite, and is not the favorite.
C22_Witness ==
    /\ \A r \in Runs :
          /\ last[r].op = "remove_favorite_contact"
          /\ ~last[r].result.ok
          /\ last[r].result.err = ContactWasNotAFavorite
          /\ Cardinality(DOMAIN last[r].pre.contacts) = 2
          /\ Cardinality(last[r].pre.favorites) = 1
    /\ contacts["a"] # contacts["b"]

====
